---------------------------- MODULE Spec2Model ----------------------------
(* A model of BurntSushi/rsc-regexp: the postfix converter re2post, the   *)
(* Thompson construction post2nfa and the Pike simulation of the          *)
(* idiomatic translation (src/idiomatic-translation/nfa.rs), and the      *)
(* simulation of the safe/dumb translations, whose generation counter is  *)
(* a process-wide i32.                                                    *)
(* Bytes are one-character strings; state handles are 0-based as in the   *)
(* source, so state sid is states[sid + 1].                               *)
EXTENDS Integers, Sequences, FiniteSets, TLC

\* ------------------------------------------------------------- bounds
\* Longest postfix program handed to post2nfa on its own.
MaxPostLen == 3
\* How far around the nesting limit the nested patterns go.
NestSpan == 2
\* How far around the length limit the long patterns go.
LenSpan == 1
\* Stand-in for i32::MAX, the largest value of the static LIST_ID.
I32Max == 3
\* match calls made in one run of the safe or the dumb translation.
SafeCalls == 3
\* Longest pattern drawn by Init.
MaxPatLen == 4
\* Longest pattern two Matchers are run on together.
PairPatLen == 2
\* Longest haystack handed to is_match.
MaxHayLen == 2
\* is_match calls made on one Matcher.
MaxCalls == 2
\* Stand-in for u32::MAX, the largest value of Matcher::list_id.
ListIdMax == 3

\* --------------------------------------------------- program constants
\* re.len() >= 8000 / 2
MaxReLen == 4000
\* paren.len() >= 100
MaxParen == 100
\* const MATCH: i32 = 256; const SPLIT: i32 = 257;
MATCH == 256
SPLIT == 257

Literals == {"a", "b"}
Operators == {"(", ")", "|", "*", "+", "?", "."}
PatAlphabet == Literals \cup Operators
HayAlphabet == Literals

SeqsUpTo(S, n) == UNION {[1..k -> S] : k \in 0..n}
Patterns == SeqsUpTo(PatAlphabet, MaxPatLen)
Haystacks == SeqsUpTo(HayAlphabet, MaxHayLen)

VARIABLES
  pc,            \* position of main
  re,            \* the pattern argument
  pos,           \* bytes of re consumed by re2post's loop
  nalt, natom,   \* re2post's counters
  paren,         \* re2post's stack of saved Paren frames
  dst,           \* re2post's output
  err,           \* which `return None` of re2post was taken ("none": none)
  tpos,          \* postfix tokens consumed by post2nfa's loop
  nfa,           \* post2nfa's nfa, later Matcher::nfa: [start, states]
  stack,         \* post2nfa's stack of Frag
  unres,         \* edges allocated with the placeholder 0 and not yet patched
  clist, nlist,  \* Matcher::clist, Matcher::nlist: [s, n]
  list_id,       \* Matcher::list_id
  last_list_id,  \* Matcher::last_list_id
  haystack,      \* the argument of the is_match call under way (or the last)
  hpos,          \* haystack bytes consumed by is_match's loop
  result,        \* what the last is_match call returned
  calls,         \* is_match calls completed on this Matcher
  fail,          \* which panic ended is_match ("none": none)
  entered,       \* handles that passed the stamp check in this generation
  printed,       \* main's standard output: the haystacks printed so far
  first,         \* the postfix program and automaton of an earlier compile
  other,         \* a second Matcher, over its own copy of the automaton
  heap,          \* safe translation: the State objects, by allocation order
  start,         \* safe translation: main's start (0: none)
  LIST_ID,       \* safe translation: the static LIST_ID
  wrapped,       \* safe translation: LIST_ID has passed i32::MAX
  NSTATE         \* safe translation: the static NSTATE

parsevars == <<re, pos, nalt, natom, paren, dst, err>>
buildvars == <<tpos, nfa, stack, unres>>
matchvars == <<clist, nlist, list_id, last_list_id, haystack, hpos, result,
               calls, fail, entered, printed>>
legacyvars == <<heap, start, LIST_ID, wrapped, NSTATE>>
auxvars == <<first, other>>
vars == <<pc, parsevars, buildvars, matchvars, legacyvars, auxvars>>

\* ------------------------------------------------------------ re2post
Repeat(x, k) == [i \in 1..k |-> x]

\* The limit taken one too low.
ParenFullAt99(stk) == Len(stk) >= MaxParen - 1

\* if paren.len() >= 100
ParenFull(stk) == Len(stk) >= MaxParen

\* > for >=.
TooLongStrict(r) == Len(r) > MaxReLen

\* if re.len() >= 8000 / 2
TooLong(r) == Len(r) >= MaxReLen

\* The check as the historical program had it: none.
DanglingUnchecked(p) == FALSE

\* if natom == 0 && nalt > 0
Dangling(p) == p.natom = 0 /\ p.nalt > 0

\* The loop without the decrement before it: one '.' too many.
FlushAtomsNoDecrement(p) ==
  [p EXCEPT !.dst = @ \o Repeat(".", p.natom), !.natom = 0]

\* natom -= 1; while natom > 0 { dst.push(b'.'); natom -= 1; }
\* (natom is an i32: from 0 the decrement leaves -1 and the loop nothing.)
FlushAtoms(p) ==
  [p EXCEPT !.dst = @ \o Repeat(".", p.natom - 1),
            !.natom = IF @ >= 1 THEN 0 ELSE @ - 1]

\* while nalt > 0 { dst.push(b'|'); nalt -= 1; }
FlushAlts(p) ==
  [p EXCEPT !.dst = @ \o Repeat("|", p.nalt), !.nalt = 0]

\* No '.' before the next atom: the concatenations all left to the end.
ConcatDeferred(p) == p

\* if natom > 1 { natom -= 1; dst.push(b'.'); }
ConcatPending(p) ==
  IF p.natom > 1
    THEN [p EXCEPT !.natom = @ - 1, !.dst = Append(@, ".")]
    ELSE p

\* The operand never asked for.
NoOperandNever(p) == FALSE

\* if natom == 0
NoOperand(p) == p.natom = 0

\* One iteration of `for &byte in re.iter()`.
Re2postByte(p, byte) ==
  CASE byte = "(" ->
         LET q == ConcatPending(p) IN
         IF ParenFull(q.paren)
           THEN [q EXCEPT !.err = "depth"]
           ELSE [q EXCEPT
                   !.paren = Append(@, [nalt |-> q.nalt, natom |-> q.natom]),
                   !.nalt = 0, !.natom = 0]
    [] byte = "|" ->
         IF NoOperand(p)
           THEN [p EXCEPT !.err = "alt"]
           ELSE [FlushAtoms(p) EXCEPT !.nalt = @ + 1]
    [] byte = ")" ->
         IF p.paren = <<>>
           THEN [p EXCEPT !.err = "unopened"]
           ELSE LET top == p.paren[Len(p.paren)]
                    q == [p EXCEPT !.paren = SubSeq(@, 1, Len(@) - 1)]
                IN IF NoOperand(q)
                     THEN [q EXCEPT !.err = "close"]
                     ELSE [FlushAlts(FlushAtoms(q)) EXCEPT
                             !.nalt = top.nalt, !.natom = top.natom + 1]
    [] byte \in {"*", "+", "?"} ->
         IF NoOperand(p)
           THEN [p EXCEPT !.err = "rep"]
           ELSE [p EXCEPT !.dst = Append(@, byte)]
    [] byte = "." -> [p EXCEPT !.err = "dot"]
    [] OTHER ->
         LET q == ConcatPending(p) IN
         [q EXCEPT !.dst = Append(@, byte), !.natom = @ + 1]

\* The code after the loop.
Re2postEnd(p) ==
  IF p.paren # <<>> THEN [p EXCEPT !.err = "unclosed"]
  ELSE IF Dangling(p) THEN [p EXCEPT !.err = "dangling"]
  ELSE FlushAlts(FlushAtoms(p))

\* let (mut nalt, mut natom) = (0, 0); paren = vec![]; dst = vec![];
Re2postStart ==
  [nalt |-> 0, natom |-> 0, paren |-> <<>>, dst |-> <<>>, err |-> "none"]

\* The empty pattern let through, as the historical program lets it.
IsEmptyNever(r) == FALSE

\* if re.is_empty()
IsEmpty(r) == r = <<>>

\* The checks before the loop.
Re2postEntry(r) ==
  IF IsEmpty(r) THEN [Re2postStart EXCEPT !.err = "empty"]
  ELSE IF TooLong(r) THEN [Re2postStart EXCEPT !.err = "long"]
  ELSE Re2postStart

RECURSIVE Re2postLoop(_, _, _)
Re2postLoop(p, r, i) ==
  IF p.err # "none" \/ i > Len(r) THEN p
  ELSE Re2postLoop(Re2postByte(p, r[i]), r, i + 1)

\* re2post as a function of the pattern: the final record, whose err is
\* "none" exactly when the code returns Some(dst).
Re2post(r) ==
  LET p == Re2postLoop(Re2postEntry(r), r, 1) IN
  IF p.err # "none" THEN p ELSE Re2postEnd(p)

ParseState == [nalt |-> nalt, natom |-> natom, paren |-> paren, dst |-> dst,
              err |-> err]

SetP(p) ==
  /\ nalt' = p.nalt
  /\ natom' = p.natom
  /\ paren' = p.paren
  /\ dst' = p.dst
  /\ err' = p.err

\* main calls re2post: the emptiness and length checks.
Re2postBegin ==
  /\ pc = "main"
  /\ LET p == Re2postEntry(re) IN
       /\ SetP(p)
       /\ pc' = IF p.err # "none" THEN "bad_regexp" ELSE "re2post"
  /\ UNCHANGED <<re, pos, buildvars, matchvars, legacyvars, auxvars>>

\* One byte of the pattern.
Re2postStep ==
  /\ pc = "re2post"
  /\ pos < Len(re)
  /\ LET p == Re2postByte(ParseState, re[pos + 1]) IN
       /\ SetP(p)
       /\ pc' = IF p.err # "none" THEN "bad_regexp" ELSE "re2post"
  /\ pos' = pos + 1
  /\ UNCHANGED <<re, buildvars, matchvars, legacyvars, auxvars>>

\* The end of the pattern: the final checks and the trailing operators.
Re2postFinish ==
  /\ pc = "re2post"
  /\ pos = Len(re)
  /\ LET p == Re2postEnd(ParseState) IN
       /\ SetP(p)
       /\ pc' = IF p.err # "none" THEN "bad_regexp" ELSE "post2nfa"
  /\ UNCHANGED <<re, pos, buildvars, matchvars, legacyvars, auxvars>>

\* ----------------------------------------------------------- post2nfa
Literal(byte, out) == [kind |-> "Literal", byte |-> byte, out |-> out]
Split(out1, out2) == [kind |-> "Split", out1 |-> out1, out2 |-> out2]
Match == [kind |-> "Match"]
Out1(sid) == [kind |-> "Out1", sid |-> sid]
Out2(sid) == [kind |-> "Out2", sid |-> sid]
Frag(s, out) == [start |-> s, out |-> out]

\* The state of a build: the arena, the start handle, the fragment stack,
\* the unresolved edges, and which panic or error ended it ("none": none).
NewBuild ==
  [states |-> <<>>, start |-> 0, stack |-> <<>>, unres |-> {},
   fail |-> "none"]

\* NFA::alloc: the new state's handle is the arena's length before the push.
Alloc(b, state) == [b EXCEPT !.states = Append(@, state)]
AllocId(b) == Len(b.states)

\* One instruction of NFA::patch on the arena; "unreachable" stands for
\* the unreachable!() arms and "index" for an index past the arena.
PatchOne(states, p, s) ==
  IF p.sid >= Len(states) THEN [fail |-> "index", states |-> states]
  ELSE LET st == states[p.sid + 1] IN
    CASE p.kind = "Out1" /\ st.kind = "Literal" ->
           [fail |-> "none",
            states |-> [states EXCEPT ![p.sid + 1] = Literal(st.byte, s)]]
      [] p.kind = "Out1" /\ st.kind = "Split" ->
           [fail |-> "none",
            states |-> [states EXCEPT ![p.sid + 1] = Split(s, st.out2)]]
      [] p.kind = "Out2" /\ st.kind = "Split" ->
           [fail |-> "none",
            states |-> [states EXCEPT ![p.sid + 1] = Split(st.out1, s)]]
      [] OTHER -> [fail |-> "unreachable", states |-> states]

RECURSIVE PatchFrom(_, _, _, _)
PatchFrom(states, l, s, i) ==
  IF i > Len(l) THEN [fail |-> "none", states |-> states]
  ELSE LET nxt == PatchOne(states, l[i], s) IN
       IF nxt.fail # "none" THEN nxt
       ELSE PatchFrom(nxt.states, l, s, i + 1)

\* NFA::patch: every instruction of l now points at s.
Patch(b, l, s) ==
  LET nxt == PatchFrom(b.states, l, s, 1) IN
  IF nxt.fail # "none" THEN [b EXCEPT !.fail = nxt.fail]
  ELSE [b EXCEPT !.states = nxt.states,
                 !.unres = @ \ {l[i] : i \in 1..Len(l)}]

Top(stk) == stk[Len(stk)]
Pop(stk) == SubSeq(stk, 1, Len(stk) - 1)
Push(b, frag) == [b EXCEPT !.stack = Append(@, frag)]
\* stack.pop().unwrap() panics on an empty stack.
Unwrap(b) == [b EXCEPT !.fail = "unwrap"]

\* b'.' => catenate
Catenate(b) ==
  IF Len(b.stack) < 2 THEN Unwrap(b)
  ELSE LET e2 == Top(b.stack)
           e1 == Top(Pop(b.stack))
           c == Patch([b EXCEPT !.stack = Pop(Pop(@))], e1.out, e2.start)
       IN IF c.fail # "none" THEN c
          ELSE Push(c, Frag(e1.start, e2.out))

\* The second branch's patch points dropped.
ExtendDropped(l1, l2) == l1

\* e1.out.extend(e2.out);
Extend(l1, l2) == l1 \o l2

\* b'|' => alternate
Alternate(b) ==
  IF Len(b.stack) < 2 THEN Unwrap(b)
  ELSE LET e2 == Top(b.stack)
           e1 == Top(Pop(b.stack))
           s == AllocId(b)
           c == Alloc([b EXCEPT !.stack = Pop(Pop(@))],
                      Split(e1.start, e2.start))
       IN Push(c, Frag(s, Extend(e1.out, e2.out)))

\* '?' without e.out.push(ToPatch::Out2(s)): the split's out2 is never
\* patched.
ZeroOrOneNoPatchPoint(b) ==
  IF Len(b.stack) < 1 THEN Unwrap(b)
  ELSE LET e == Top(b.stack)
           s == AllocId(b)
           c == Alloc([b EXCEPT !.stack = Pop(@),
                                !.unres = @ \cup {Out2(s)}],
                      Split(e.start, 0))
       IN Push(c, Frag(s, e.out))

\* b'?' => zero or one
ZeroOrOne(b) ==
  IF Len(b.stack) < 1 THEN Unwrap(b)
  ELSE LET e == Top(b.stack)
           s == AllocId(b)
           c == Alloc([b EXCEPT !.stack = Pop(@),
                                !.unres = @ \cup {Out2(s)}],
                      Split(e.start, 0))
       IN Push(c, Frag(s, Append(e.out, Out2(s))))

\* The fragment '*' pushes starts at the new split.
StarStart(e, s) == s
\* '+' built like '*'.
PlusStartAtSplit(e, s) == s

\* The fragment '+' pushes starts at the body.
PlusStart(e, s) == e.start

\* The body's patch points kept beside the split's, as '?' keeps them.
LoopOutKept(e, s) == Append(e.out, Out2(s))

\* let out = vec![ToPatch::Out2(s)];
LoopOut(e, s) == <<Out2(s)>>

\* b'*' and b'+': a split looping back to the body; startOf is what the
\* two arms differ in.
Loop(b, star) ==
  IF Len(b.stack) < 1 THEN Unwrap(b)
  ELSE LET e == Top(b.stack)
           s == AllocId(b)
           c == Alloc([b EXCEPT !.stack = Pop(@),
                                !.unres = @ \cup {Out2(s)}],
                      Split(e.start, 0))
           d == Patch(c, e.out, s)
       IN IF d.fail # "none" THEN d
          ELSE Push(d, Frag(IF star THEN StarStart(e, s) ELSE PlusStart(e, s),
                            LoopOut(e, s)))

\* _ => a literal byte
LiteralTok(b, byte) ==
  LET s == AllocId(b)
      c == Alloc([b EXCEPT !.unres = @ \cup {Out1(s)}], Literal(byte, 0))
  IN Push(c, Frag(s, <<Out1(s)>>))

\* One iteration of `for &byte in postfix.iter()`.
Post2nfaToken(b, byte) ==
  CASE byte = "." -> Catenate(b)
    [] byte = "|" -> Alternate(b)
    [] byte = "?" -> ZeroOrOne(b)
    [] byte = "*" -> Loop(b, TRUE)
    [] byte = "+" -> Loop(b, FALSE)
    [] OTHER -> LiteralTok(b, byte)

\* The start left as NFA { start: 0, .. } made it.
FinalStartUnset(e) == 0

\* nfa.start = e.start;
FinalStart(e) == e.start

\* The code after the loop: the last fragment is popped, more than one
\* fragment is the error, and the Match state closes the automaton.
Post2nfaEnd(b) ==
  IF Len(b.stack) < 1 THEN Unwrap(b)
  ELSE LET e == Top(b.stack)
           c == [b EXCEPT !.stack = Pop(@)]
       IN IF c.stack # <<>> THEN [c EXCEPT !.fail = "none_returned"]
          ELSE LET s == AllocId(c)
                   d == [Alloc(c, Match) EXCEPT !.start = FinalStart(e)]
               IN Patch(d, e.out, s)

RECURSIVE Post2nfaLoop(_, _, _)
Post2nfaLoop(b, post, i) ==
  IF b.fail # "none" \/ i > Len(post) THEN b
  ELSE Post2nfaLoop(Post2nfaToken(b, post[i]), post, i + 1)

\* NFA::post2nfa as a function of the postfix program.
Post2nfa(post) ==
  LET b == Post2nfaLoop(NewBuild, post, 1) IN
  IF b.fail # "none" THEN b ELSE Post2nfaEnd(b)

BuildState == [states |-> nfa.states, start |-> nfa.start, stack |-> stack,
      unres |-> unres, fail |-> "none"]

SetB(b) ==
  /\ nfa' = [start |-> b.start, states |-> b.states]
  /\ stack' = b.stack
  /\ unres' = b.unres

AfterBuild(b, ok) ==
  CASE b.fail = "none" -> ok
    [] b.fail = "none_returned" -> "post2nfa_error"
    [] OTHER -> "post2nfa_panic"

\* One token of the postfix program.
Post2nfaStep ==
  /\ pc = "post2nfa"
  /\ tpos < Len(dst)
  /\ LET b == Post2nfaToken(BuildState, dst[tpos + 1]) IN
       /\ SetB(b)
       /\ pc' = AfterBuild(b, "post2nfa")
  /\ tpos' = tpos + 1
  /\ UNCHANGED <<parsevars, matchvars, legacyvars, auxvars>>

\* The end of the postfix program.
Post2nfaFinish ==
  /\ pc = "post2nfa"
  /\ tpos = Len(dst)
  /\ LET b == Post2nfaEnd(BuildState) IN
       /\ SetB(b)
       /\ pc' = AfterBuild(b, "built")
  /\ UNCHANGED <<parsevars, tpos, matchvars, legacyvars, auxvars>>

\* ------------------------------------------------------------ Matcher
\* The vectors one entry short.
ZerosShort(n) == [i \in 1..(n - 1) |-> 0]

\* vec![0; nfa.states.len()]
Zeros(n) == [i \in 1..n |-> 0]

\* Matcher::new, which takes the automaton by value. fail, ncalls and
\* entered are not fields of the Matcher: they record a panic, the calls of
\* add_state_to_next under way and the handles that passed its stamp check
\* since the generation began.
MatcherNewState(a) ==
  [nfa |-> a,
   clist |-> [s |-> Zeros(Len(a.states)), n |-> 0],
   nlist |-> [s |-> Zeros(Len(a.states)), n |-> 0],
   list_id |-> 0,
   last_list_id |-> Zeros(Len(a.states)),
   fail |-> "none",
   ncalls |-> 0,
   entered |-> <<>>]

\* self.list_id.checked_add(1) is None
ListIdExhausted(id) == id = ListIdMax

\* The counter wrapping silently, the stamps kept.
IncrementListIdWrapping(m) ==
  [m EXCEPT !.list_id = (@ + 1) % (ListIdMax + 1)]

\* The counter restarting at 1 over the old stamps.
IncrementListIdStampsKept(m) ==
  IF ListIdExhausted(m.list_id)
    THEN [m EXCEPT !.list_id = 1]
    ELSE [m EXCEPT !.list_id = @ + 1]

\* Matcher::increment_list_id
IncrementListId(m) ==
  IF ListIdExhausted(m.list_id)
    THEN [m EXCEPT !.last_list_id = Zeros(Len(@)), !.list_id = 1]
    ELSE [m EXCEPT !.list_id = @ + 1]

\* The stamp never consulted.
OnNextListNever(m, sid) == FALSE

\* if self.list_id == self.last_list_id[sid as usize]
OnNextList(m, sid) == m.list_id = m.last_list_id[sid + 1]

\* The stamp never written.
StampSkipped(m, sid) == m

\* The stamp written into the State itself, as the safe and dumb
\* translations keep it.
StampInState(m, sid) ==
  [m EXCEPT !.last_list_id[sid + 1] = m.list_id,
            !.nfa.states[sid + 1] =
               [lastlist |-> m.list_id] @@ m.nfa.states[sid + 1]]

\* self.last_list_id[sid as usize] = self.list_id;
Stamp(m, sid) == [m EXCEPT !.last_list_id[sid + 1] = m.list_id]

\* What stops a closure that does not end: more calls than the stamps allow
\* one top-level insertion, each state being entered at most once.
CallBudget(a) == 2 * Len(a.states) + 1

\* Matcher::add_state_to_next; fail records a slice index out of bounds
\* ("index") or a closure past its call budget ("diverge").
RECURSIVE AddStateToNext(_, _, _)
AddStateToNext(m, a, sid) ==
  IF m.fail # "none" THEN m
  ELSE IF m.ncalls >= CallBudget(a) THEN [m EXCEPT !.fail = "diverge"]
  ELSE IF sid >= Len(m.last_list_id) THEN [m EXCEPT !.fail = "index"]
  ELSE IF OnNextList(m, sid) THEN [m EXCEPT !.ncalls = @ + 1]
  ELSE LET m1 == [Stamp(m, sid) EXCEPT !.ncalls = @ + 1,
                                      !.entered = Append(@, sid)]
       IN IF sid >= Len(a.states) THEN [m1 EXCEPT !.fail = "index"]
          ELSE LET st == a.states[sid + 1] IN
            IF st.kind = "Split"
              THEN AddStateToNext(AddStateToNext(m1, a, st.out1), a, st.out2)
            ELSE IF m1.nlist.n >= Len(m1.nlist.s)
              THEN [m1 EXCEPT !.fail = "index"]
            ELSE [m1 EXCEPT !.nlist.s[m1.nlist.n + 1] = sid,
                            !.nlist.n = @ + 1]

\* std::mem::swap(&mut self.clist, &mut self.nlist)
Swap(m) == [m EXCEPT !.clist = m.nlist, !.nlist = m.clist]

\* The entries of the last use kept.
LengthKept(l) == l

\* self.nlist.n = 0;
ResetLength(l) == [l EXCEPT !.n = 0]

\* Matcher::start
Start(m, a) ==
  LET m1 == [IncrementListId(m) EXCEPT !.nlist = ResetLength(@),
                                       !.ncalls = 0, !.entered = <<>>]
      m2 == AddStateToNext(m1, a, a.start)
  IN IF m2.fail # "none" THEN m2 ELSE Swap(m2)

\* A Literal followed whatever the byte read.
AnyLiteral(st, byte) == st.kind = "Literal"

\* State::Literal { byte, out } if b == byte
ByteMatches(st, byte) == st.kind = "Literal" /\ st.byte = byte

\* The loop of Matcher::step from index i of clist.
RECURSIVE StepFrom(_, _, _, _)
StepFrom(m, a, byte, i) ==
  IF m.fail # "none" \/ i >= m.clist.n THEN m
  ELSE IF i >= Len(m.clist.s) \/ m.clist.s[i + 1] >= Len(a.states)
    THEN [m EXCEPT !.fail = "index"]
  ELSE LET st == a.states[m.clist.s[i + 1] + 1] IN
    IF ByteMatches(st, byte)
      THEN StepFrom(AddStateToNext([m EXCEPT !.ncalls = 0], a, st.out),
                    a, byte, i + 1)
      ELSE StepFrom(m, a, byte, i + 1)

\* Matcher::step
Step(m, a, byte) ==
  StepFrom([IncrementListId(m) EXCEPT !.nlist = ResetLength(@),
                                      !.entered = <<>>],
           a, byte, 0)

\* The last expression of is_match: any state of clist[..n] is Match.
AnyMatch(m, a) ==
  \E i \in 1..m.clist.n : a.states[m.clist.s[i] + 1].kind = "Match"

\* The loop of Matcher::is_match from byte i of the haystack.
RECURSIVE IsMatchFrom(_, _, _, _)
IsMatchFrom(m, a, h, i) ==
  IF m.fail # "none" \/ i > Len(h) THEN m
  ELSE LET m1 == Step(m, a, h[i]) IN
       IsMatchFrom(IF m1.fail # "none" THEN m1 ELSE Swap(m1), a, h, i + 1)

\* Matcher::is_match as a function of the Matcher, the automaton and the
\* haystack: the Matcher afterwards and the boolean returned.
IsMatch(m, a, h) ==
  LET m1 == IsMatchFrom(Start(m, a), a, h, 1) IN
  [m |-> m1, result |-> m1.fail = "none" /\ AnyMatch(m1, a)]

MatcherState == [nfa |-> nfa, clist |-> clist, nlist |-> nlist,
      list_id |-> list_id, last_list_id |-> last_list_id, fail |-> "none",
      ncalls |-> 0, entered |-> entered]

SetM(m) ==
  /\ nfa' = m.nfa
  /\ clist' = m.clist
  /\ nlist' = m.nlist
  /\ list_id' = m.list_id
  /\ last_list_id' = m.last_list_id
  /\ fail' = m.fail
  /\ entered' = m.entered

\* let mut matcher = Matcher::new(nfa);
MatcherNew ==
  /\ pc = "built"
  /\ SetM(MatcherNewState(nfa))
  /\ pc' = "ready"
  /\ UNCHANGED <<parsevars, tpos, stack, unres, haystack, hpos, result,
                 calls, printed, legacyvars, auxvars>>

\* main hands the next argument to is_match, which runs start().
IsMatchBegin ==
  /\ pc = "ready"
  /\ calls < MaxCalls
  /\ \E h \in Haystacks :
       /\ haystack' = h
       /\ LET m == Start(MatcherState, nfa) IN
            /\ SetM(m)
            /\ pc' = IF m.fail # "none" THEN "is_match_panic" ELSE "is_match"
  /\ hpos' = 0
  /\ UNCHANGED <<parsevars, tpos, stack, unres, result, calls, printed,
                 legacyvars, auxvars>>

\* One byte of the haystack: step() and the swap.
IsMatchStep ==
  /\ pc = "is_match"
  /\ hpos < Len(haystack)
  /\ LET m == Step(MatcherState, nfa, haystack[hpos + 1]) IN
       IF m.fail # "none"
         THEN SetM(m) /\ pc' = "is_match_panic"
         ELSE SetM(Swap(m)) /\ pc' = "is_match"
  /\ hpos' = hpos + 1
  /\ UNCHANGED <<parsevars, tpos, stack, unres, haystack, result, calls,
                 printed, legacyvars, auxvars>>

\* The line put before the earlier ones.
PrintlnFirst(out, h) == <<h>> \o out

\* println!("{haystack}")
Println(out, h) == Append(out, h)

\* The end of the haystack: is the Match state on clist? main prints the
\* haystack when it is.
IsMatchEnd ==
  /\ pc = "is_match"
  /\ hpos = Len(haystack)
  /\ result' = AnyMatch(MatcherState, nfa)
  /\ printed' = IF result' THEN Println(printed, haystack) ELSE printed
  /\ calls' = calls + 1
  /\ pc' = "ready"
  /\ UNCHANGED <<parsevars, buildvars, clist, nlist, list_id, last_list_id,
                 haystack, hpos, fail, entered, legacyvars, auxvars>>

\* The arguments are exhausted (there was at least one): ExitCode::SUCCESS
MainReturn ==
  /\ pc = "ready"
  /\ calls > 0
  /\ pc' = "exit_success"
  /\ UNCHANGED <<parsevars, buildvars, matchvars, legacyvars, auxvars>>

InitMatch ==
  /\ clist = [s |-> <<>>, n |-> 0]
  /\ nlist = [s |-> <<>>, n |-> 0]
  /\ list_id = 0
  /\ last_list_id = <<>>
  /\ haystack = <<>>
  /\ hpos = 0
  /\ result = FALSE
  /\ calls = 0
  /\ fail = "none"
  /\ entered = <<>>
  /\ printed = <<>>

\* ----------------------------------------------- the safe translation
\* src/safe-translation/nfa.rs. A State is a heap object [c, out, out1,
\* lastlist]; an Option<Rc<RefCell<State>>> is the object's number in
\* allocation order, 0 for None. The dumb translation has the same
\* generation counter and the same List::start, add_state and step.

\* i32::from(byte)
ByteCode(byte) ==
  CASE byte = "a" -> 97 [] byte = "b" -> 98 [] byte = "(" -> 40
    [] byte = ")" -> 41 [] byte = "*" -> 42 [] byte = "+" -> 43
    [] byte = "." -> 46 [] byte = "?" -> 63 [] byte = "|" -> 124

I32Min == -I32Max - 1
\* AtomicI32::fetch_add(1, _): the addition wraps around.
FetchAdd(id) == IF id = I32Max THEN I32Min ELSE id + 1
Wraps(id) == id = I32Max

SafeNewBuild == [heap |-> <<>>, stack |-> <<>>, nstate |-> 0, fail |-> "none"]

\* State::new: the handle of the new object is SafeNewId. (NSTATE counts
\* at most one state per postfix token and two in main, far from i32::MAX.)
SafeStateNew(b, c, out, out1) ==
  [b EXCEPT !.nstate = @ + 1,
            !.heap = Append(@, [c |-> c, out |-> out, out1 |-> out1,
                                lastlist |-> 0])]
SafeNewId(b) == Len(b.heap) + 1

\* PtrList::out, PtrList::out1: singleton lists
PtrOut(parent) == <<[kind |-> "Out", parent |-> parent]>>
PtrOut1(parent) == <<[kind |-> "Out1", parent |-> parent]>>

\* PtrList::patch
RECURSIVE SafePatchFrom(_, _, _, _)
SafePatchFrom(hp, l, s, i) ==
  IF i > Len(l) THEN hp
  ELSE SafePatchFrom(
         IF l[i].kind = "Out"
           THEN [hp EXCEPT ![l[i].parent].out = s]
           ELSE [hp EXCEPT ![l[i].parent].out1 = s],
         l, s, i + 1)
SafePatch(b, l, s) == [b EXCEPT !.heap = SafePatchFrom(@, l, s, 1)]

\* The second list lost.
SafeAppendFirstOnly(l1, l2) == l1

\* PtrList::append
SafeAppend(l1, l2) == l1 \o l2

\* One iteration of post2nfa's loop.
SafePost2nfaToken(b, p) ==
  LET need == IF p \in {".", "|"} THEN 2 ELSE IF p \in {"?", "*", "+"} THEN 1
              ELSE 0
  IN
  IF Len(b.stack) < need THEN [b EXCEPT !.fail = "unwrap"]
  ELSE
  CASE p = "." ->
         LET e2 == Top(b.stack)
             e1 == Top(Pop(b.stack))
             c == SafePatch([b EXCEPT !.stack = Pop(Pop(@))], e1.out, e2.start)
         IN Push(c, Frag(e1.start, e2.out))
    [] p = "|" ->
         LET e2 == Top(b.stack)
             e1 == Top(Pop(b.stack))
             s == SafeNewId(b)
             c == SafeStateNew([b EXCEPT !.stack = Pop(Pop(@))], SPLIT,
                               e1.start, e2.start)
         IN Push(c, Frag(s, SafeAppend(e1.out, e2.out)))
    [] p = "?" ->
         LET e == Top(b.stack)
             s == SafeNewId(b)
             c == SafeStateNew([b EXCEPT !.stack = Pop(@)], SPLIT, e.start, 0)
         IN Push(c, Frag(s, SafeAppend(e.out, PtrOut1(s))))
    [] p = "*" ->
         LET e == Top(b.stack)
             s == SafeNewId(b)
             c == SafeStateNew([b EXCEPT !.stack = Pop(@)], SPLIT, e.start, 0)
         IN Push(SafePatch(c, e.out, s), Frag(s, PtrOut1(s)))
    [] p = "+" ->
         LET e == Top(b.stack)
             s == SafeNewId(b)
             c == SafeStateNew([b EXCEPT !.stack = Pop(@)], SPLIT, e.start, 0)
         IN Push(SafePatch(c, e.out, s), Frag(e.start, PtrOut1(s)))
    [] OTHER ->
         LET s == SafeNewId(b)
             c == SafeStateNew(b, ByteCode(p), 0, 0)
         IN Push(c, Frag(s, PtrOut(s)))

RECURSIVE SafePost2nfaLoop(_, _, _)
SafePost2nfaLoop(b, post, i) ==
  IF b.fail # "none" \/ i > Len(post) THEN b
  ELSE SafePost2nfaLoop(SafePost2nfaToken(b, post[i]), post, i + 1)

\* post2nfa: the build afterwards and the start state (0 with fail set
\* when the code panics or returns None).
SafePost2nfa(post) ==
  LET b == SafePost2nfaLoop(SafeNewBuild, post, 1) IN
  IF b.fail # "none" THEN [b |-> b, start |-> 0]
  ELSE IF Len(b.stack) < 1 THEN [b |-> [b EXCEPT !.fail = "unwrap"], start |-> 0]
  ELSE LET e == Top(b.stack)
           c == [b EXCEPT !.stack = Pop(@)]
       IN IF c.stack # <<>>
            THEN [b |-> [c EXCEPT !.fail = "none_returned"], start |-> 0]
            ELSE LET s == SafeNewId(c)
                     d == SafeStateNew(c, MATCH, 0, 0)
                 IN [b |-> SafePatch(d, e.out, s), start |-> e.start]

\* List::add_state on list l of the search state m = [heap, l, id, fail].
RECURSIVE SafeAddState(_, _)
SafeAddState(m, s) ==
  IF m.fail # "none" \/ s = 0 THEN m
  ELSE IF m.heap[s].lastlist = m.id THEN m
  ELSE LET m1 == [m EXCEPT !.heap[s].lastlist = m.id] IN
    IF m1.heap[s].c = SPLIT
      THEN SafeAddState(SafeAddState(m1, m1.heap[s].out), m1.heap[s].out1)
    ELSE IF m1.l.n >= Len(m1.l.s) THEN [m1 EXCEPT !.fail = "index"]
    ELSE [m1 EXCEPT !.l.s[m1.l.n + 1] = s, !.l.n = @ + 1]

\* List::start on l1
SafeListStart(hp, l, id, st) ==
  SafeAddState([heap |-> hp, l |-> [l EXCEPT !.n = 0], id |-> FetchAdd(id),
                fail |-> "none"], st)

\* The loop of step from index i of clist.
RECURSIVE SafeStepFrom(_, _, _, _)
SafeStepFrom(m, cl, c, i) ==
  IF m.fail # "none" \/ i >= cl.n THEN m
  ELSE LET s == cl.s[i + 1] IN
    IF m.heap[s].c = c
      THEN SafeStepFrom(SafeAddState(m, m.heap[s].out), cl, c, i + 1)
      ELSE SafeStepFrom(m, cl, c, i + 1)

\* step(clist, c, nlist)
SafeStep(hp, cl, c, nl, id) ==
  SafeStepFrom([heap |-> hp, l |-> [nl EXCEPT !.n = 0], id |-> FetchAdd(id),
                fail |-> "none"], cl, c, 0)

\* List::is_match
SafeIsMatch(hp, l) == \E i \in 1..l.n : hp[l.s[i]].c = MATCH

\* main after re2post: post2nfa, then l1 and l2, each filled with one
\* State::new(0, None, None) cloned nstate times.
SafeBuild ==
  /\ pc = "post2nfa"
  /\ LET r == SafePost2nfa(dst)
         nstate == r.b.nstate
         d1 == SafeStateNew(r.b, 0, 0, 0)
         d2 == SafeStateNew(d1, 0, 0, 0)
     IN IF r.b.fail # "none"
          THEN /\ pc' = AfterBuild(r.b, "safe_ready")
               /\ UNCHANGED <<heap, start, NSTATE, clist, nlist>>
          ELSE /\ pc' = "safe_ready"
               /\ heap' = d2.heap
               /\ start' = r.start
               /\ NSTATE' = d2.nstate
               /\ clist' = [s |-> [i \in 1..nstate |-> SafeNewId(r.b)], n |-> 0]
               /\ nlist' = [s |-> [i \in 1..nstate |-> SafeNewId(d1)], n |-> 0]
  /\ UNCHANGED <<parsevars, buildvars, list_id, last_list_id, haystack, hpos,
                 result, calls, fail, entered, printed, LIST_ID, wrapped,
                 auxvars>>

\* One state fewer counted.
DumbNstateShort(b) == b.nstate - 2

\* NSTATE.load(Ordering::Acquire): State::new counted every state but the
\* static MATCH_STATE.
DumbNstate(b) == b.nstate - 1

\* The dumb translation's main after re2post: its post2nfa builds the same
\* states, but the Match state is the static MATCH_STATE, which State::new
\* did not count (here it is the last object of the heap); l1 and l2 are
\* nstate null pointers.
DumbBuild ==
  /\ pc = "post2nfa"
  /\ LET r == SafePost2nfa(dst)
         nstate == DumbNstate(r.b)
     IN IF r.b.fail # "none"
          THEN /\ pc' = AfterBuild(r.b, "safe_ready")
               /\ UNCHANGED <<heap, start, NSTATE, clist, nlist>>
          ELSE /\ pc' = "safe_ready"
               /\ heap' = r.b.heap
               /\ start' = r.start
               /\ NSTATE' = nstate
               /\ clist' = [s |-> Zeros(nstate), n |-> 0]
               /\ nlist' = [s |-> Zeros(nstate), n |-> 0]
  /\ UNCHANGED <<parsevars, buildvars, list_id, last_list_id, haystack, hpos,
                 result, calls, fail, entered, printed, LIST_ID, wrapped,
                 auxvars>>

\* main hands the next argument to match, which runs l1.start(start).
SafeMatchBegin ==
  /\ pc = "safe_ready"
  /\ calls < SafeCalls
  /\ \E h \in Haystacks : haystack' = h
  /\ LET m == SafeListStart(heap, clist, LIST_ID, start) IN
       /\ heap' = m.heap
       /\ clist' = m.l
       /\ LIST_ID' = m.id
       /\ pc' = IF m.fail # "none" THEN "safe_panic" ELSE "safe_match"
  /\ wrapped' = (wrapped \/ Wraps(LIST_ID))
  /\ hpos' = 0
  /\ UNCHANGED <<parsevars, buildvars, nlist, list_id, last_list_id, result,
                 calls, fail, entered, printed, start, NSTATE, auxvars>>

\* One byte of the haystack: step and the swap.
SafeMatchStep ==
  /\ pc = "safe_match"
  /\ hpos < Len(haystack)
  /\ LET m == SafeStep(heap, clist, ByteCode(haystack[hpos + 1]), nlist,
                       LIST_ID)
     IN /\ heap' = m.heap
        /\ LIST_ID' = m.id
        /\ IF m.fail # "none"
             THEN pc' = "safe_panic" /\ nlist' = m.l /\ clist' = clist
             ELSE pc' = "safe_match" /\ clist' = m.l /\ nlist' = clist
  /\ wrapped' = (wrapped \/ Wraps(LIST_ID))
  /\ hpos' = hpos + 1
  /\ UNCHANGED <<parsevars, buildvars, list_id, last_list_id, haystack,
                 result, calls, fail, entered, printed, start, NSTATE,
                 auxvars>>

\* The end of the haystack: clist.is_match(); main prints the haystack
\* when it holds.
SafeMatchEnd ==
  /\ pc = "safe_match"
  /\ hpos = Len(haystack)
  /\ result' = SafeIsMatch(heap, clist)
  /\ printed' = IF result' THEN Println(printed, haystack) ELSE printed
  /\ calls' = calls + 1
  /\ pc' = "safe_ready"
  /\ UNCHANGED <<parsevars, buildvars, clist, nlist, list_id, last_list_id,
                 haystack, hpos, fail, entered, legacyvars, auxvars>>

InitLegacy ==
  /\ heap = <<>>
  /\ start = 0
  /\ LIST_ID = 0
  /\ wrapped = FALSE
  /\ NSTATE = 0

InitAux ==
  /\ first = [dst |-> <<>>, nfa |-> [start |-> 0, states |-> <<>>]]
  /\ other = [pc |-> "none",
              m |-> MatcherNewState([start |-> 0, states |-> <<>>]),
              haystack |-> <<>>, hpos |-> 0, result |-> FALSE, calls |-> 0]

InitBuild ==
  /\ tpos = 0
  /\ nfa = [start |-> 0, states |-> <<>>]
  /\ stack = <<>>
  /\ unres = {}

InitParse ==
  /\ pc = "main"
  /\ pos = 0
  /\ nalt = 0
  /\ natom = 0
  /\ paren = <<>>
  /\ dst = <<>>
  /\ err = "none"

Init ==
  /\ re \in Patterns
  /\ InitParse
  /\ InitBuild
  /\ InitMatch
  /\ InitLegacy
  /\ InitAux

Next ==
  \/ Re2postBegin
  \/ Re2postStep
  \/ Re2postFinish
  \/ Post2nfaStep
  \/ Post2nfaFinish
  \/ MatcherNew
  \/ IsMatchBegin
  \/ IsMatchStep
  \/ IsMatchEnd
  \/ MainReturn

Spec == Init /\ [][Next]_vars

\* post2nfa on any token sequence, not only on re2post's.
Tokens == Literals \cup {".", "|", "?", "*", "+"}
InitAnyPostfix ==
  /\ re = <<>>
  /\ pos = 0
  /\ nalt = 0
  /\ natom = 0
  /\ paren = <<>>
  /\ err = "none"
  /\ dst \in SeqsUpTo(Tokens, MaxPostLen)
  /\ pc = "post2nfa"
  /\ InitBuild
  /\ InitMatch
  /\ InitLegacy
  /\ InitAux
NextBuild ==
  \/ Post2nfaStep
  \/ Post2nfaFinish
SpecAnyPostfix == InitAnyPostfix /\ [][NextBuild]_vars

\* re2post around its nesting limit: k groups around one literal, closed
\* or left open.
Nested(k) == Repeat("(", k) \o <<"a">> \o Repeat(")", k)
Unclosed(k) == Repeat("(", k) \o <<"a">>
NestCases == (MaxParen - NestSpan)..(MaxParen + NestSpan)
InitNest ==
  /\ re \in {Nested(k) : k \in NestCases} \cup {Unclosed(k) : k \in NestCases}
  /\ InitParse
  /\ InitBuild
  /\ InitMatch
  /\ InitLegacy
  /\ InitAux
NextParse ==
  \/ Re2postBegin
  \/ Re2postStep
  \/ Re2postFinish
SpecNest == InitNest /\ [][NextParse]_vars

\* re2post around its length limit: n times the same byte.
LenCases == {1} \cup ((MaxReLen - LenSpan)..(MaxReLen + LenSpan))
InitLen ==
  /\ re \in {Repeat(b, n) : b \in {"a", "*", "("}, n \in LenCases}
  /\ InitParse
  /\ InitBuild
  /\ InitMatch
  /\ InitLegacy
  /\ InitAux
NextLen ==
  \/ Re2postBegin
  \/ Re2postStep
  \/ Re2postFinish
SpecLen == InitLen /\ [][NextLen]_vars

\* The safe and the dumb translation's programs: the same re2post, then
\* their own post2nfa and simulation.
NextSafe ==
  \/ Re2postBegin
  \/ Re2postStep
  \/ Re2postFinish
  \/ SafeBuild
  \/ DumbBuild
  \/ SafeMatchBegin
  \/ SafeMatchStep
  \/ SafeMatchEnd
SpecSafe == Init /\ [][NextSafe]_vars

\* Two Matchers in one program: the one of main and a second one, `other`,
\* built over its own copy of the automaton (Matcher::new takes the NFA by
\* value); any operation of one may come between two of the other.
PairPatterns == SeqsUpTo(PatAlphabet, PairPatLen)

\* The generation counter as a process-wide value, as the safe and dumb
\* translations have it: the second Matcher reads the first one's.
SharedListId(o) == [o.m EXCEPT !.list_id = list_id]

\* struct Matcher: list_id, last_list_id, clist and nlist are fields of
\* the value, so an operation on a Matcher works on that Matcher's own.
OwnState(o) == o.m

\* let mut other = Matcher::new(nfa);
OtherNew ==
  /\ pc = "ready"
  /\ calls = 0
  /\ other.pc = "none"
  /\ other' = [other EXCEPT !.pc = "ready", !.m = MatcherNewState(nfa)]
  /\ UNCHANGED <<pc, parsevars, buildvars, matchvars, legacyvars, first>>

\* other.is_match(h): start()
OtherBegin ==
  /\ other.pc = "ready"
  /\ other.calls < MaxCalls
  /\ \E h \in Haystacks :
       LET m == Start(OwnState(other), other.m.nfa) IN
       other' = [other EXCEPT
                   !.m = m, !.haystack = h, !.hpos = 0,
                   !.pc = IF m.fail # "none" THEN "panic" ELSE "is_match"]
  /\ UNCHANGED <<pc, parsevars, buildvars, matchvars, legacyvars, first>>

\* other.is_match(h): one byte, step() and the swap
OtherStep ==
  /\ other.pc = "is_match"
  /\ other.hpos < Len(other.haystack)
  /\ LET m == Step(OwnState(other), other.m.nfa,
                   other.haystack[other.hpos + 1])
     IN other' = [other EXCEPT
                    !.m = IF m.fail # "none" THEN m ELSE Swap(m),
                    !.hpos = @ + 1,
                    !.pc = IF m.fail # "none" THEN "panic" ELSE "is_match"]
  /\ UNCHANGED <<pc, parsevars, buildvars, matchvars, legacyvars, first>>

\* other.is_match(h): the last expression
OtherEnd ==
  /\ other.pc = "is_match"
  /\ other.hpos = Len(other.haystack)
  /\ other' = [other EXCEPT
                 !.result = AnyMatch(OwnState(other), other.m.nfa),
                 !.calls = @ + 1,
                 !.pc = "ready"]
  /\ UNCHANGED <<pc, parsevars, buildvars, matchvars, legacyvars, first>>

InitPair ==
  /\ re \in PairPatterns
  /\ InitParse
  /\ InitBuild
  /\ InitMatch
  /\ InitLegacy
  /\ InitAux
NextPair ==
  \/ Re2postBegin
  \/ Re2postStep
  \/ Re2postFinish
  \/ Post2nfaStep
  \/ Post2nfaFinish
  \/ MatcherNew
  \/ IsMatchBegin
  \/ IsMatchStep
  \/ IsMatchEnd
  \/ OtherNew
  \/ OtherBegin
  \/ OtherStep
  \/ OtherEnd
SpecPair == InitPair /\ [][NextPair]_vars

\* re2post on every pattern Init draws and on longer ones with several
\* branches, groups within concatenations and repeated groups.
PostfixExamples ==
  {<<"a", "|", "b", "|", "a">>,
   <<"a", "(", "b", "|", "a", ")", "*", "b">>,
   <<"(", "a", "|", "b", ")", "|", "a">>,
   <<"a", "|", "(", "b", "|", "a", "b", ")">>,
   <<"(", "a", "b", "|", "b", ")", "+", "a", "?">>,
   <<"a", "b", "(", "a", "(", "b", ")", ")", "a">>,
   <<"a", "|", "b", "|", "|", "a">>}
InitPostfix ==
  /\ re \in Patterns \cup PostfixExamples
  /\ InitParse
  /\ InitBuild
  /\ InitMatch
  /\ InitLegacy
  /\ InitAux
NextPostfix ==
  \/ Re2postBegin
  \/ Re2postStep
  \/ Re2postFinish
SpecPostfix == InitPostfix /\ [][NextPostfix]_vars

\* The same pattern compiled a second time in the same process.
\* The arena of the compile before, built on.
ArenaKept(prev) == prev

\* let mut nfa = NFA { states: vec![], start: 0 };
FreshArena(prev) == <<>>

\* re2post and post2nfa are called again on the same pattern: the first
\* postfix program and automaton are set aside, and every local of the
\* two functions starts afresh.
CompileAgain ==
  /\ pc = "built"
  /\ first.dst = <<>>
  /\ first' = [dst |-> dst, nfa |-> nfa]
  /\ pc' = "main"
  /\ pos' = 0
  /\ SetP(Re2postStart)
  /\ tpos' = 0
  /\ nfa' = [start |-> 0, states |-> FreshArena(nfa.states)]
  /\ stack' = <<>>
  /\ unres' = {}
  /\ UNCHANGED <<re, clist, nlist, list_id, last_list_id, haystack, hpos,
                 result, calls, fail, entered, printed, legacyvars, other>>

NextTwice ==
  \/ Re2postBegin
  \/ Re2postStep
  \/ Re2postFinish
  \/ Post2nfaStep
  \/ Post2nfaFinish
  \/ CompileAgain
SpecTwice == Init /\ [][NextTwice]_vars

\* ------------------------------------------- the language of a pattern
\* The strings of length at most MaxHayLen + 1 of the language the grammar
\*   alt ::= cat ('|' cat)*      cat ::= rep rep*
\*   rep ::= atom ('*' | '+' | '?')*      atom ::= literal | '(' alt ')'
\* gives a pattern, by recursive descent on the pattern itself.
LangLen == MaxHayLen + 1
LCat(A, B) == {w \in {x \o y : x \in A, y \in B} : Len(w) <= LangLen}
LOpt(A) == A \cup {<<>>}
RECURSIVE LPow(_, _)
LPow(A, k) == IF k = 0 THEN {<<>>} ELSE LOpt(LCat(LPow(A, k - 1), A))
LStar(A) == LPow(A, LangLen)
LPlus(A) == LCat(A, LStar(A))

NoParse == [ok |-> FALSE, lang |-> {}, next |-> 0]
Parsed(lang, next) == [ok |-> TRUE, lang |-> lang, next |-> next]
At(r, i) == IF i <= Len(r) THEN r[i] ELSE "end"

RECURSIVE ParseAlt(_, _), ParseAlts(_, _), ParseCat(_, _), ParseCats(_, _),
          ParseReps(_, _), ParseAtom(_, _)
ParseAtom(r, i) ==
  CASE At(r, i) \in Literals -> Parsed({<<r[i]>>}, i + 1)
    [] At(r, i) = "(" ->
         LET a == ParseAlt(r, i + 1) IN
         IF a.ok /\ At(r, a.next) = ")" THEN Parsed(a.lang, a.next + 1)
         ELSE NoParse
    [] OTHER -> NoParse
\* a is the atom parsed so far; the repetition operators that follow it
ParseReps(r, a) ==
  CASE ~a.ok -> a
    [] At(r, a.next) = "*" -> ParseReps(r, Parsed(LStar(a.lang), a.next + 1))
    [] At(r, a.next) = "+" -> ParseReps(r, Parsed(LPlus(a.lang), a.next + 1))
    [] At(r, a.next) = "?" -> ParseReps(r, Parsed(LOpt(a.lang), a.next + 1))
    [] OTHER -> a
\* c is the concatenation parsed so far; the reps that follow it
ParseCats(r, c) ==
  IF c.ok /\ At(r, c.next) \in Literals \cup {"("}
    THEN LET x == ParseReps(r, ParseAtom(r, c.next)) IN
         IF x.ok THEN ParseCats(r, Parsed(LCat(c.lang, x.lang), x.next))
         ELSE NoParse
    ELSE c
ParseCat(r, i) == ParseCats(r, ParseReps(r, ParseAtom(r, i)))
\* a is the alternation parsed so far; the branches that follow it
ParseAlts(r, a) ==
  IF a.ok /\ At(r, a.next) = "|"
    THEN LET c == ParseCat(r, a.next + 1) IN
         IF c.ok THEN ParseAlts(r, Parsed(a.lang \cup c.lang, c.next))
         ELSE NoParse
    ELSE a
ParseAlt(r, i) == ParseAlts(r, ParseCat(r, i))

\* The whole pattern is one alt.
InGrammar(r) == LET a == ParseAlt(r, 1) IN a.ok /\ a.next = Len(r) + 1
Lang(r) == ParseAlt(r, 1).lang

\* ------------------------------------------------------------ claims
Returned == pc = "ready" /\ calls > 0

\* C1: is_match on the automaton of an accepted pattern returns true
\* exactly when the whole haystack is in the pattern's language.
C1_FullMatch ==
  Returned => /\ InGrammar(re)
              /\ result = (haystack \in Lang(re))

C1_Witness ==
  /\ Returned
  /\ re = <<"a", "b", "*">>
  /\ haystack = <<"a", "b">>
  /\ result

\* C2: re2post rejects the empty pattern, an operator or ')' with no atom
\* pending in its group, a trailing '|', unmatched parentheses and any '.'.
Depth(r, i) ==
  Cardinality({j \in 1..i : r[j] = "("}) -
  Cardinality({j \in 1..i : r[j] = ")"})
NoAtomPending(r, i) == i = 1 \/ r[i - 1] \in {"(", "|"}
MustReject(r) ==
  \/ r = <<>>
  \/ \E i \in 1..Len(r) : r[i] = "."
  \/ \E i \in 1..Len(r) :
       r[i] \in {"|", "*", "+", "?", ")"} /\ NoAtomPending(r, i)
  \/ r # <<>> /\ r[Len(r)] = "|"
  \/ \E i \in 1..Len(r) : Depth(r, i) < 0
  \/ Depth(r, Len(r)) # 0
Re2postReturned == pc \notin {"main", "re2post"}

C2_Rejected == Re2postReturned /\ MustReject(re) => pc = "bad_regexp"

C2_Witness ==
  /\ pc = "bad_regexp"
  /\ re = <<"a", "|", "|", "b">>
  /\ err = "alt"

\* C4: post2nfa returns the construction error for any token sequence that
\* does not reduce to exactly one fragment, and never panics instead.
RECURSIVE FragmentsAfter(_, _, _)
\* The number of fragments tokens i.. leave, from d of them; -1 when a
\* token finds fewer operands than it takes.
FragmentsAfter(post, i, d) ==
  IF i > Len(post) THEN d
  ELSE LET need == CASE post[i] \in {".", "|"} -> 2
                     [] post[i] \in {"?", "*", "+"} -> 1
                     [] OTHER -> 0
       IN IF d < need THEN -1
          ELSE FragmentsAfter(post, i + 1, d - need + 1)
Reduces(post) == FragmentsAfter(post, 1, 0) = 1
Post2nfaReturned == pc \in {"built", "post2nfa_error", "post2nfa_panic"}

C4_ErrorReturned ==
  /\ pc # "post2nfa_panic"
  /\ Post2nfaReturned /\ ~Reduces(dst) => pc = "post2nfa_error"

\* C3: on the postfix program of an accepted pattern post2nfa never pops
\* an empty stack, ends its loop with exactly one fragment and returns
\* Some.
C3_BuildSucceeds ==
  /\ pc \notin {"post2nfa_panic", "post2nfa_error"}
  /\ pc = "post2nfa" /\ tpos = Len(dst) => Len(stack) = 1

C3_Witness ==
  /\ pc = "built"
  /\ re = <<"(", "a", ")", "b">>
  /\ Len(nfa.states) = 3

\* C5: when post2nfa returns, start and every out, out1, out2 index a
\* state of the automaton, no edge is left unresolved or at its
\* placeholder, and the last fragment's patch points lead to Match.
Handles(st) ==
  CASE st.kind = "Literal" -> {st.out}
    [] st.kind = "Split" -> {st.out1, st.out2}
    [] OTHER -> {}
InArena(a) ==
  /\ a.start < Len(a.states)
  /\ \A i \in 1..Len(a.states) :
       \A h \in Handles(a.states[i]) : h >= 0 /\ h < Len(a.states)
\* No patch ever targets state 0, so a patched edge is not 0.
NoPlaceholder(a) ==
  \A i \in 1..Len(a.states) :
    /\ a.states[i].kind = "Literal" => a.states[i].out # 0
    /\ a.states[i].kind = "Split" => a.states[i].out2 # 0
Target(a, p) ==
  LET st == a.states[p.sid + 1] IN
  CASE st.kind = "Literal" -> st.out
    [] p.kind = "Out1" -> st.out1
    [] OTHER -> st.out2
C5_EdgesResolved ==
  [][pc = "post2nfa" /\ pc' = "built" =>
       /\ InArena(nfa')
       /\ unres' = {}
       /\ NoPlaceholder(nfa')
       /\ stack' = <<>>
       /\ \A i \in 1..Len(Top(stack).out) :
            LET t == Target(nfa', Top(stack).out[i]) IN
            t = Len(nfa'.states) - 1 /\ nfa'.states[t + 1].kind = "Match"
    ]_vars

C5_Witness ==
  /\ pc = "built"
  /\ re = <<"a", "?", "b", "*">>
  /\ unres = {}
  /\ Len(nfa.states) = 5

\* C6: re2post rejects nesting depth 100: a '(' met with 99 groups open is
\* refused and only depth 99 or less passes the nesting check.
\* The deepest nesting the pattern reaches: the most groups open at once.
NestingDepth(r) ==
  LET depths == {Depth(r, i) : i \in 0..Len(r)} IN
  CHOOSE d \in depths : \A e \in depths : e <= d

C7_LengthLimit ==
  Re2postReturned =>
    /\ Len(re) >= 4000 => pc = "bad_regexp" /\ err = "long" /\ pos = 0
    /\ Len(re) >= 1 /\ Len(re) <= 3999 => err # "long"
    /\ Len(re) <= 3999 /\ re = Repeat("a", Len(re)) => pc = "post2nfa"

C7_Witness ==
  /\ pc = "bad_regexp"
  /\ re = Repeat("a", 4000)
  /\ err = "long"

\* C8: at the counter's maximum increment_list_id clears every stamp and
\* restarts at 1, and every is_match result, before, across and after the
\* reset, is the result of a fresh Matcher.
Fresh(a, h) == IsMatch(MatcherNewState(a), a, h).result
C8_ExhaustionReset ==
  [][/\ list_id = ListIdMax /\ list_id' # list_id =>
          /\ list_id' = 1
          /\ \A i \in 1..Len(last_list_id') : last_list_id'[i] \in {0, 1}
     /\ pc = "is_match" /\ pc' = "ready" =>
          result' = Fresh(nfa, haystack)
    ]_vars

\* Two calls done and the counter at 1: the second began with the reset.
C8_Witness ==
  /\ Returned
  /\ calls = 2
  /\ haystack = <<>>
  /\ list_id = 1
  /\ result
  /\ \E i \in 1..Len(last_list_id) : last_list_id[i] = 0

\* C9: in the safe and dumb translations the exhaustion of LIST_ID is
\* handled: when a generation begins no state carries its number as a
\* stale stamp, so add_state skips no state that is not on the list and
\* every result is the right one.
C9_StampsNeverStale ==
  [][/\ LIST_ID' # LIST_ID =>
          \A s \in 1..Len(heap) : heap[s].lastlist # LIST_ID'
     /\ pc = "safe_match" /\ pc' = "safe_ready" =>
          result' = (haystack \in Lang(re))
    ]_vars

\* C10: the live part of clist and of nlist holds no Split state and no
\* handle twice. (Within one step nlist only grows, so its live part at
\* any point is a prefix of the one the step leaves.)
Live(l) == SubSeq(l.s, 1, l.n)
NoSplitNoDuplicate(l) ==
  \A i \in 1..l.n :
    /\ nfa.states[l.s[i] + 1].kind # "Split"
    /\ \A j \in 1..l.n : l.s[i] = l.s[j] => i = j
C10_ListsClean ==
  pc \in {"ready", "is_match"} =>
    NoSplitNoDuplicate(clist) /\ NoSplitNoDuplicate(nlist)

C10_Witness ==
  /\ pc = "is_match"
  /\ re = <<"a", "?", "?">>
  /\ clist.n = 2
  /\ nlist.n = 2

\* C11: the epsilon-closure insertions of start and step end on every
\* automaton of an accepted pattern, cyclic ones included: no closure runs
\* past its call budget, and within one generation no handle passes the
\* stamp check twice, so at most as many pass as there are states.
NoDuplicates(q) == \A i, j \in 1..Len(q) : q[i] = q[j] => i = j
Simulating == pc \in {"ready", "is_match", "is_match_panic", "exit_success"}
C11_ClosureTerminates ==
  /\ fail # "diverge"
  /\ Simulating =>
       /\ NoDuplicates(entered)
       /\ Len(entered) <= Len(nfa.states)

\* a** after one 'a': the closure went round the cycle of the two splits
\* and entered each of the four states once.
C11_Witness ==
  /\ pc = "is_match"
  /\ re = <<"a", "*", "*">>
  /\ hpos = 1
  /\ Len(entered) = 4

\* C12: is_match never panics and indexes nothing out of bounds: the lists
\* and the stamp table have one entry per state, the lists' lengths stay
\* within them, and every handle on a list or in a state is below the
\* state count.
HandlesInRange(l) ==
  /\ Len(l.s) = Len(nfa.states)
  /\ l.n <= Len(l.s)
  /\ \A i \in 1..l.n : l.s[i] >= 0 /\ l.s[i] < Len(nfa.states)
C12_NoSimulationError ==
  /\ pc # "is_match_panic"
  /\ fail # "index"
  /\ pc \in {"ready", "is_match", "exit_success"} =>
       /\ HandlesInRange(clist)
       /\ HandlesInRange(nlist)
       /\ Len(last_list_id) = Len(nfa.states)
       /\ InArena(nfa)

\* a?b? after start: three of the five states are on clist at once.
C12_Witness ==
  /\ pc = "is_match"
  /\ re = <<"a", "?", "b", "?">>
  /\ hpos = 0
  /\ clist.n = 3
  /\ fail = "none"

\* C14: no matching operation changes the automaton: from the return of
\* post2nfa on, through Matcher::new and any sequence of is_match calls,
\* nfa.start and nfa.states are what post2nfa built.
AsBuilt(post) ==
  LET b == Post2nfa(post) IN [start |-> b.start, states |-> b.states]
C14_AutomatonFrozen ==
  pc = "built" \/ Simulating => nfa = AsBuilt(dst)

\* a+ after two calls, the second of two bytes: four generations stamped
\* the states, and the automaton is the one built.
C14_Witness ==
  /\ pc = "ready"
  /\ calls = 2
  /\ haystack = <<"a", "a">>
  /\ list_id = 1
  /\ nfa.states = <<Literal("a", 1), Split(0, 2), Match>>
  /\ nfa.start = 0

\* C13: the result of is_match does not depend on the calls made before
\* it: two Matchers over the same automaton that have answered the same
\* haystack last, after whatever earlier calls each has served, have
\* returned the same boolean.
BothReturned == Returned /\ other.pc = "ready" /\ other.calls > 0
C13_HistoryIndependent ==
  BothReturned /\ haystack = other.haystack => result = other.result

\* a+ asked for "a" by a Matcher on its second call, past its counter's
\* reset, and by one on its first.
C13_Witness ==
  /\ BothReturned
  /\ re = <<"a", "+">>
  /\ haystack = <<"a">>
  /\ other.haystack = <<"a">>
  /\ calls = 2
  /\ other.calls = 1
  /\ list_id = 1
  /\ other.m.list_id = 2
  /\ result

\* C15: two Matchers over structurally identical automatons, each with
\* its own list_id, last_list_id, clist and nlist, may have their start
\* and step operations interleaved in any order: whatever each returns is
\* what a Matcher running alone returns for that haystack.
C15_NoInterference ==
  /\ other.pc # "panic"
  /\ pc # "is_match_panic"
  /\ Returned => result = Fresh(nfa, haystack)
  /\ other.pc = "ready" /\ other.calls > 0 =>
       other.result = Fresh(other.m.nfa, other.haystack)

\* Both Matchers in the middle of a call on a*, on different haystacks.
C15_Witness ==
  /\ re = <<"a", "*">>
  /\ pc = "is_match"
  /\ other.pc = "is_match"
  /\ haystack = <<"a", "a">>
  /\ other.haystack = <<"b", "a">>
  /\ hpos = 1
  /\ other.hpos = 1
  /\ other.calls = 1

\* C16: compiling the same pattern twice gives the same postfix program
\* and automatons with the same number of states, the same start and, for
\* every state, the same kind, byte and targets (handle for handle, which
\* is more than equality up to renumbering).
CompiledTwice == pc = "built" /\ first.dst # <<>>
SameShape(a1, a2) ==
  /\ Len(a1.states) = Len(a2.states)
  /\ a1.start = a2.start
  /\ \A i \in 1..Len(a1.states) : a1.states[i] = a2.states[i]
IdiomaticRejects(r) ==
  \/ Re2post(r).err # "none"
  \/ Post2nfa(Re2post(r).dst).fail # "none"
LegacyRejected == pc \in {"bad_regexp", "post2nfa_error", "post2nfa_panic"}
C17_TranslationsAgree ==
  /\ Re2postReturned /\ pc # "post2nfa" =>
       (LegacyRejected <=> IdiomaticRejects(re))
  /\ ~wrapped => pc # "safe_panic"
  /\ pc = "safe_ready" /\ calls > 0 /\ ~wrapped =>
       result = Fresh(AsBuilt(dst), haystack)

\* The dumb translation on a|b: "" and then "b", three generations.
C17_Witness ==
  /\ pc = "safe_ready"
  /\ re = <<"a", "|", "b">>
  /\ NSTATE = 3
  /\ calls = 2
  /\ haystack = <<"b">>
  /\ LIST_ID = 3
  /\ ~wrapped
  /\ result

\* C18: with a valid pattern main prints each haystack that fully matches,
\* once per occurrence and in the order of the arguments, prints nothing
\* for the others and ends with ExitCode::SUCCESS; with a rejected pattern
\* it prints nothing and ends with ExitCode::FAILURE. It does end: every
\* step moves main forward, and short of its exit main is never stuck.
Answered == pc = "is_match" /\ pc' = "ready"
\* How far main has come: the stage, then what the stage has consumed.
Stage ==
  CASE pc = "main" -> 0
    [] pc = "re2post" -> 1
    [] pc = "post2nfa" -> 2
    [] pc = "built" -> 3
    [] pc \in {"ready", "is_match"} -> 4
    [] OTHER -> 5
Consumed ==
  CASE pc = "re2post" -> pos
    [] pc = "post2nfa" -> tpos
    [] pc = "ready" -> calls * (MaxHayLen + 2)
    [] pc = "is_match" -> calls * (MaxHayLen + 2) + 1 + hpos
    [] OTHER -> 0
C18_PrintsMatches ==
  [][/\ Answered =>
          printed' = IF haystack \in Lang(re)
                       THEN Append(printed, haystack) ELSE printed
     /\ ~Answered => printed' = printed
     /\ pc' = "exit_success" => InGrammar(re) /\ calls' > 0
     /\ pc' \notin {"main", "re2post"} /\ ~InGrammar(re) =>
          pc' = "bad_regexp" /\ printed' = <<>>
     /\ \/ Stage' > Stage
        \/ Stage' = Stage /\ Consumed' > Consumed
     /\ pc' = "re2post" => pos' <= Len(re)
     /\ pc' = "post2nfa" => tpos' <= Len(dst')
     /\ pc' = "is_match" => hpos' <= Len(haystack')
     /\ pc' \notin
          {"post2nfa_error", "post2nfa_panic", "is_match_panic"}
    ]_vars

\* a+ given "a" and then "b": one line printed, and success.
C18_Witness ==
  /\ pc = "exit_success"
  /\ re = <<"a", "+">>
  /\ calls = 2
  /\ haystack = <<"b">>
  /\ printed = << <<"a">> >>

\* C19: re2post accepts exactly the patterns of the grammar: a pattern of
\* at least one byte, below the length and nesting limits and without '.',
\* is accepted if and only if it is an alt of
\*   alt ::= cat ('|' cat)*      cat ::= rep rep*
\*   rep ::= atom ('*' | '+' | '?')*      atom ::= literal | '(' alt ')'
\* so that stacked repetition operators are accepted and no well-formed
\* pattern is rejected.
WithinLimits(r) ==
  /\ Len(r) >= 1
  /\ Len(r) < MaxReLen
  /\ NestingDepth(r) <= MaxParen
  /\ \A i \in 1..Len(r) : r[i] # "."
C19_AcceptsGrammar ==
  Re2postReturned /\ WithinLimits(re) =>
    (pc # "bad_regexp" <=> InGrammar(re))

\* a*? is accepted, the operators stacked.
C19_Witness ==
  /\ pc = "post2nfa"
  /\ re = <<"a", "*", "?">>
  /\ dst = <<"a", "*", "?">>
  /\ tpos = 0

\* C20: the output of re2post on an accepted pattern is the postfix form
\* of the pattern's parse, repetition binding tighter than concatenation
\* and concatenation tighter than alternation: the literals in source
\* order, each '*', '+', '?' right after its operand, concatenation
\* left-associated (abc gives ab.c.), a branch's concatenations before
\* its '|', and a group's '|' together after its last branch.
\* The postfix form, by recursive descent on the pattern.
NoPost == [ok |-> FALSE, post |-> <<>>, next |-> 0]
Posted(post, next) == [ok |-> TRUE, post |-> post, next |-> next]
RECURSIVE PostAlt(_, _), PostCat(_, _), PostCats(_, _), PostReps(_, _),
          PostAtom(_, _)
PostAtom(r, i) ==
  CASE At(r, i) \in Literals -> Posted(<<r[i]>>, i + 1)
    [] At(r, i) = "(" ->
         LET a == PostAlt(r, i + 1) IN
         IF a.ok /\ At(r, a.next) = ")" THEN Posted(a.post, a.next + 1)
         ELSE NoPost
    [] OTHER -> NoPost
PostReps(r, a) ==
  IF a.ok /\ At(r, a.next) \in {"*", "+", "?"}
    THEN PostReps(r, Posted(Append(a.post, r[a.next]), a.next + 1))
    ELSE a
PostCats(r, c) ==
  IF c.ok /\ At(r, c.next) \in Literals \cup {"("}
    THEN LET x == PostReps(r, PostAtom(r, c.next)) IN
         IF x.ok THEN PostCats(r, Posted(c.post \o x.post \o <<".">>, x.next))
         ELSE NoPost
    ELSE c
PostCat(r, i) == PostCats(r, PostReps(r, PostAtom(r, i)))
PostAlt(r, i) ==
  LET c == PostCat(r, i) IN
  IF c.ok /\ At(r, c.next) = "|"
    THEN LET a == PostAlt(r, c.next + 1) IN
         IF a.ok THEN Posted(c.post \o a.post \o <<"|">>, a.next)
         ELSE NoPost
    ELSE c
Serialised(r) == PostAlt(r, 1).post

C20_PostfixOfParse ==
  Re2postReturned /\ pc # "bad_regexp" => dst = Serialised(re)

\* a(b|a)*b gives aba|*.b.
C20_Witness ==
  /\ pc = "post2nfa"
  /\ re = <<"a", "(", "b", "|", "a", ")", "*", "b">>
  /\ dst = <<"a", "b", "a", "|", "*", ".", "b", ".">>


\* C21: after start and after each step and swap, the live entries of clist
\* are exactly the Literal and Match states reachable from the start state
\* by the haystack bytes read so far, Split edges followed freely and a
\* Literal edge only on its own byte: none missing, none extra.
EpsStep(a, S) ==
  S \cup {a.states[s + 1].out1 : s \in {t \in S : a.states[t + 1].kind = "Split"}}
    \cup {a.states[s + 1].out2 : s \in {t \in S : a.states[t + 1].kind = "Split"}}
RECURSIVE EpsClosure(_, _)
EpsClosure(a, S) ==
  IF EpsStep(a, S) = S THEN S ELSE EpsClosure(a, EpsStep(a, S))
NonSplit(a, S) == {s \in S : a.states[s + 1].kind # "Split"}
MoveOn(a, S, byte) ==
  {a.states[s + 1].out :
     s \in {t \in S : /\ a.states[t + 1].kind = "Literal"
                       /\ a.states[t + 1].byte = byte}}
RECURSIVE ReachableAfter(_, _, _)
ReachableAfter(a, h, i) ==
  IF i = 0 THEN NonSplit(a, EpsClosure(a, {a.start}))
  ELSE NonSplit(a, EpsClosure(a, MoveOn(a, ReachableAfter(a, h, i - 1), h[i])))
LiveSet(l) == {l.s[i] : i \in 1..l.n}
C21_SimulationInvariant ==
  /\ pc = "is_match" => LiveSet(clist) = ReachableAfter(nfa, haystack, hpos)
  /\ pc = "ready" /\ calls > 0 =>
       LiveSet(clist) = ReachableAfter(nfa, haystack, Len(haystack))

\* a*b after "aa" in a second call, whose last step began with the reset of
\* the stamps: both Literal states are live, the Match state is not.
C21_Witness ==
  /\ pc = "is_match"
  /\ re = <<"a", "*", "b">>
  /\ calls = 1
  /\ haystack = <<"a", "a">>
  /\ hpos = 2
  /\ list_id = 1
  /\ LiveSet(clist) = {0, 2}

\* C22: on '*' and on '+' post2nfa allocates one Split whose out1 is the
\* popped fragment's start, turns every patch point of that fragment to the
\* Split and touches no other state, and pushes a fragment whose one patch
\* point is the Split's out2 and whose start is the Split for '*', the
\* popped fragment's start for '+'. So a pattern X* matches the empty
\* haystack, and X+ matches it exactly when X does.
OneFactor(x) ==
  LET f == ParseReps(x, ParseAtom(x, 1)) IN f.ok /\ f.next = Len(x) + 1
Body(r) == SubSeq(r, 1, Len(r) - 1)
C22_LoopFragments ==
  [][/\ (/\ pc = "post2nfa" /\ tpos < Len(dst)
         /\ dst[tpos + 1] \in {"*", "+"} /\ pc' = "post2nfa") =>
          LET e == Top(stack)
              s == Len(nfa.states)
          IN /\ Len(nfa'.states) = s + 1
             /\ nfa'.states[s + 1] = Split(e.start, 0)
             /\ \A i \in 1..Len(e.out) : Target(nfa', e.out[i]) = s
             /\ \A i \in 1..s :
                  (\A j \in 1..Len(e.out) : e.out[j].sid # i - 1) =>
                    nfa'.states[i] = nfa.states[i]
             /\ stack' = Append(Pop(stack),
                   Frag(IF dst[tpos + 1] = "*" THEN s ELSE e.start,
                        <<Out2(s)>>))
     /\ (/\ pc = "ready" /\ calls > 0 /\ haystack = <<>>
         /\ re # <<>> /\ re[Len(re)] \in {"*", "+"} /\ OneFactor(Body(re))) =>
          result = (re[Len(re)] = "*" \/ <<>> \in Lang(Body(re)))
    ]_vars

\* a?+ on the empty haystack: the '+' turned both patch points of a? to its
\* split, the automaton starts at the split of '?', and the empty haystack
\* matches as it matches a?.
C22_Witness ==
  /\ pc = "ready"
  /\ calls > 0
  /\ re = <<"a", "?", "+">>
  /\ nfa.states = <<Literal("a", 2), Split(0, 2), Split(1, 3), Match>>
  /\ nfa.start = 1
  /\ haystack = <<>>
  /\ result

\* C23: the automaton post2nfa returns has exactly one Match state, the
\* last one allocated, with no outgoing edge; its start is the start of the
\* one fragment left; and it has one state more than the postfix program
\* has tokens other than '.', so at most one more than the pattern has
\* bytes.
MatchStates(a) == {i \in 1..Len(a.states) : a.states[i].kind = "Match"}
NonDots(post) == {i \in 1..Len(post) : post[i] # "."}
C23_OneMatchLast ==
  [][/\ pc = "post2nfa" /\ pc' = "built" =>
          /\ Len(stack) = 1
          /\ nfa'.start = Top(stack).start
          /\ Len(nfa'.states) = Len(nfa.states) + 1
     /\ pc = "built" \/ Simulating =>
          /\ MatchStates(nfa) = {Len(nfa.states)}
          /\ Handles(nfa.states[Len(nfa.states)]) = {}
          /\ DOMAIN nfa.states[Len(nfa.states)] = {"kind"}
          /\ Len(nfa.states) = 1 + Cardinality(NonDots(dst))
          /\ Len(nfa.states) <= Len(re) + 1
    ]_vars

\* ab|a, whose postfix program ab.a| has a '.': five states for five
\* tokens less the '.', the Match state last, the start at the split.
C23_Witness ==
  /\ pc = "built"
  /\ re = <<"a", "b", "|", "a">>
  /\ dst = <<"a", "b", ".", "a", "|">>
  /\ nfa.start = 3
  /\ Len(nfa.states) = 5
  /\ nfa.states[5] = Match

\* C24: during post2nfa, after each token, the patch lists of the fragments
\* on the stack share no patch point and together hold exactly the edges
\* still unresolved, each still at its placeholder; an Out1 point names a
\* Literal state and an Out2 point a Split state. So patch rewrites each
\* unresolved edge once, none is left when post2nfa returns, and neither
\* unreachable!() arm of patch runs.
RECURSIVE PatchPoints(_, _)
PatchPoints(stk, i) ==
  IF i > Len(stk) THEN <<>> ELSE stk[i].out \o PatchPoints(stk, i + 1)
WellKinded(a, p) ==
  /\ p.sid < Len(a.states)
  /\ p.kind = "Out1" => a.states[p.sid + 1].kind = "Literal"
  /\ p.kind = "Out2" => a.states[p.sid + 1].kind = "Split"
C24_PatchListsPartition ==
  /\ pc # "post2nfa_panic"
  /\ pc \in {"post2nfa", "built"} =>
       LET pts == PatchPoints(stack, 1) IN
       /\ NoDuplicates(pts)
       /\ {pts[i] : i \in 1..Len(pts)} = unres
       /\ \A p \in unres : WellKinded(nfa, p) /\ Target(nfa, p) = 0
  /\ pc = "built" => unres = {}

\* a?b before its '.': two fragments on the stack, the first with the two
\* patch points of a?, the second with the one of b, three edges
\* unresolved.
C24_Witness ==
  /\ pc = "post2nfa"
  /\ dst = <<"a", "?", "b", ".">>
  /\ tpos = 3
  /\ Len(stack) = 2
  /\ stack[1].out = <<Out1(0), Out2(1)>>
  /\ unres = {Out1(0), Out2(1), Out1(2)}

\* C25: in the dumb translation, whose lists have NSTATE entries and whose
\* NSTATE does not count the static MATCH_STATE, add_state never writes
\* past the end of a list: the live length n of l1 and of l2 never exceeds
\* NSTATE, the Match state and Literal states live together included.
\* The safe translation's main allocates two more states after post2nfa;
\* in a run of the dumb translation the Match state is the last object.
DumbRun ==
  /\ pc \in {"safe_ready", "safe_match", "safe_panic"}
  /\ heap # <<>>
  /\ heap[Len(heap)].c = MATCH
C25_DumbListsFit ==
  DumbRun =>
    /\ pc # "safe_panic"
    /\ NSTATE = Len(heap) - 1
    /\ Len(clist.s) = NSTATE /\ Len(nlist.s) = NSTATE
    /\ clist.n <= NSTATE /\ nlist.n <= NSTATE

\* a* after one 'a': NSTATE is 2 (the literal and the split), and the
\* literal and the Match state fill the list.
C25_Witness ==
  /\ DumbRun
  /\ pc = "safe_match"
  /\ re = <<"a", "*">>
  /\ hpos = 1
  /\ NSTATE = 2
  /\ clist.n = 2
  /\ {clist.s[i] : i \in 1..clist.n} = {1, 3}

\* C26: in the Matcher no entry of last_list_id is ever above list_id, and
\* list_id is at least 1 whenever add_state_to_next has run, so the stamp 0
\* of a new or reset table is never the current generation: the states
\* whose stamp is the current generation are exactly those that passed the
\* stamp check in it.
Stamped(id) == {sid \in 0..(Len(last_list_id) - 1) : last_list_id[sid + 1] = id}
C26_StampsBelowCounter ==
  /\ \A i \in 1..Len(last_list_id) :
       last_list_id[i] >= 0 /\ last_list_id[i] <= list_id
  /\ list_id >= 0 /\ list_id <= ListIdMax
  /\ pc \in {"is_match", "is_match_panic"} \/ calls > 0 \/ entered # <<>> =>
       list_id >= 1
  /\ Simulating /\ list_id >= 1 =>
       Stamped(list_id) = {entered[i] : i \in 1..Len(entered)}

\* ab, second call, after "ab": the step on 'b' began with the reset, so
\* the counter is 1, the Match state alone carries it and the other stamps
\* are the 0 of the reset.
C26_Witness ==
  /\ pc = "is_match"
  /\ re = <<"a", "b">>
  /\ calls = 1
  /\ hpos = 2
  /\ haystack = <<"a", "b">>
  /\ list_id = 1
  /\ last_list_id = <<0, 0, 1>>
  /\ entered = <<2>>

\* C27: all through re2post natom is 0, 1 or 2 and nalt is not negative,
\* the natom a Paren frame saves is 0 or 1, and every `natom -= 1` before
\* a flush, at '|', at ')' and in the final emission (which is reached
\* with the paren stack empty), finds natom at least 1: no decrement
\* leaves a counter negative.
CountersInRange ==
  /\ natom \in {0, 1, 2}
  /\ nalt >= 0
  /\ \A i \in 1..Len(paren) : paren[i].natom \in {0, 1} /\ paren[i].nalt >= 0
C27_CountersInRange ==
  [][/\ CountersInRange
     /\ CountersInRange'
     /\ (/\ pc = "re2post" /\ pc' = "re2post" /\ pos < Len(re)
         /\ re[pos + 1] \in {"|", ")"}) => natom >= 1
     /\ pc = "re2post" /\ pc' = "post2nfa" => natom >= 1 /\ paren = <<>>
     /\ nalt' < nalt => nalt' = 0 \/ re[pos + 1] = ")"
    ]_vars

\* a(b|a)*b after a(b|a: the frame saved natom 1, the '|' flushed the
\* branch's one atom and counted itself, and the branch after it has one.
C27_Witness ==
  /\ pc = "re2post"
  /\ re = <<"a", "(", "b", "|", "a", ")", "*", "b">>
  /\ pos = 5
  /\ paren = <<[nalt |-> 0, natom |-> 1]>>
  /\ nalt = 1
  /\ natom = 1

=============================================================================
